---- MODULE Spec2Model ----
(***************************************************************************)
(* A model of ParticleSwarm.py: the ParticleSwarm object, its constructor,  *)
(* the run() loop and the four steps of takeStep().                         *)
(*                                                                          *)
(* Real numbers are modelled as integers (fixed point with unit 1).  A      *)
(* draw of scipy.rand is k / RandDen for k in 0 .. RandDen-1, and a product *)
(* with a draw is rounded down to the unit, as floating point rounds to a   *)
(* representable value.                                                     *)
(***************************************************************************)
EXTENDS Integers, Sequences, FiniteSets, TLC

VARIABLES
    pc,             \* where the caller is: new, failed, idle, loop, vel, pos, fit, write, raised, deleted
    args,           \* the arguments __init__ was called with
    err,            \* the exception that left the last failing call, or "none"
    attrs,          \* the names of the attributes assigned to self so far
    particleX, particleV,
    bestFitPartX, bestFitPart,
    bestFitGlobalRef,   \* what self.bestFitGlobalX is bound to: 0 = its own zeros array,
                        \* i = the view of row i of self.particleX
    bestFitGlobal,
    outFile,        \* self.outFile: "none", "open" or "closed"
    written,        \* the rows handed to self.outCSV.writerow
    step,           \* the local counter of run()
    runs,           \* history: calls of run() so far
    cycles,         \* history: calls of takeStep() completed so far
    evaluated       \* history: per particle, the positions fitFunc returned a value for

vars == << pc, args, err, attrs, particleX, particleV, bestFitPartX, bestFitPart,
           bestFitGlobalRef, bestFitGlobal, outFile, written, step, runs, cycles,
           evaluated >>

-----------------------------------------------------------------------------
(* Bounds of the model *)

\* the generation cycles followed after construction, over all calls of run()
MaxCycles == 2
\* a draw of scipy.rand is one of 0/RandDen .. (RandDen-1)/RandDen
RandDen == 2

Rand == 0 .. (RandDen - 1)

-----------------------------------------------------------------------------
(* The arguments the constructor is tried with *)

\* the values of maxGenNum: None, an int, a float such as 2.5
None == [ type |-> "NoneType", val |-> 0 ]
IntOf(n) == [ type |-> "int", val |-> n ]
Float == [ type |-> "float", val |-> 2 ]

RangeSets == { << >>, << <<0, 2>> >>, << <<2, 0>> >> }
ParticleNums == { 2 }
FitnessFuncs == { "sumsq", "linear", "shifted", "partial" }
PSValsSet == { <<1, 1, 1>>, <<1, 1>> }
MaxGenNums == { None, IntOf(0), IntOf(1), IntOf(2), Float }
SaveValsSet == { FALSE, TRUE }
SaveFiles == { "None", "out.csv" }

Args == [ rangeSet : RangeSets, particleNum : ParticleNums, fitnessFunc : FitnessFuncs,
          PSVals : PSValsSet, maxGenNum : MaxGenNums, saveVals : SaveValsSet,
          saveFile : SaveFiles ]

\* three particles on a line and two in the plane, on an objective that raises
\* outside [-1, 1]
Args3 ==
    [ rangeSet : { << <<0, 2>> >> }, particleNum : { 3 },
      fitnessFunc : { "partial" }, PSVals : { <<1, 1, 1>> },
      maxGenNum : { IntOf(1) }, saveVals : { TRUE }, saveFile : { "out.csv" } ]
    \cup
    [ rangeSet : { << <<0, 2>>, <<0, 2>> >> }, particleNum : { 2 },
      fitnessFunc : { "partial" }, PSVals : { <<1, 1, 1>> },
      maxGenNum : { IntOf(1) }, saveVals : { TRUE }, saveFile : { "out.csv" } ]

\* the arguments before the constructor is called
NoArgs == [ rangeSet |-> << >>, particleNum |-> 0, fitnessFunc |-> "sumsq",
            PSVals |-> << >>, maxGenNum |-> None, saveVals |-> FALSE,
            saveFile |-> "None" ]

-----------------------------------------------------------------------------
(* The objective functions: pure, from a position to a number, or raising *)

RECURSIVE Sum(_)
Sum(v) == IF v = << >> THEN 0 ELSE Head(v) + Sum(Tail(v))

Squares(x) == [ d \in 1 .. Len(x) |-> x[d] * x[d] ]

\* fitFunc( x ) raises: "partial" is defined on [-1, 1] in every dimension only
Raises(f, x) == f = "partial" /\ \E d \in 1 .. Len(x) : x[d] < -1 \/ x[d] > 1

\* fitFunc( x ), where it returns
Fit(f, x) ==
    CASE f = "sumsq"   -> Sum(Squares(x))
      [] f = "linear"  -> Sum(x)
      [] f = "shifted" -> Sum(Squares(x)) + 1
      [] f = "partial" -> Sum(x) - 3

-----------------------------------------------------------------------------
(* Python's truth value and type test of the maxGenNum argument *)

Truthy(m) == m.type # "NoneType" /\ m.val # 0
IsInt(m) == m.type = "int"

\* the attributes of self the model reads through args
N == Len(args.rangeSet)
particleNumber == args.particleNum
fitFunc == args.fitnessFunc
omega == args.PSVals[1]
phiD == args.PSVals[2]
phiG == args.PSVals[3]

\* scipy.zeros( n )
Zeros(n) == [ d \in 1 .. n |-> 0 ]

\* self.bestFitGlobalX, read through the binding
GlobalX(ref, X, n) == IF ref = 0 THEN Zeros(n) ELSE X[ref]
bestFitGlobalX == GlobalX(bestFitGlobalRef, particleX, N)

-----------------------------------------------------------------------------
(* initializeParticles *)

\* xLow + xDif * r, for one row r of scipy.rand
InitX(rs, r) ==
    [ d \in 1 .. Len(rs) |-> rs[d][1] + ((rs[d][2] - rs[d][1]) * r[d]) \div RandDen ]

\* -xDif + 2 * xDif * r
InitV(rs, r) ==
    [ d \in 1 .. Len(rs) |->
        (-(rs[d][2] - rs[d][1])) + (2 * (rs[d][2] - rs[d][1]) * r[d]) \div RandDen ]

-----------------------------------------------------------------------------
(* writeVals: the flattened row [ 0, x_0..., 1, x_1..., ... ] *)

RECURSIVE WriteList(_, _)
WriteList(X, i) ==
    IF i > Len(X) THEN << >> ELSE << i - 1 >> \o X[i] \o WriteList(X, i + 1)

\* WriteVals replacing what was written instead of appending to it
WriteValsMut(w, X) == << WriteList(X, 1) >>

WriteVals(w, X) == Append(w, WriteList(X, 1))

-----------------------------------------------------------------------------
(* updateFitness *)

\* Improves with the comparison turned round
ImprovesMut(f, best) == f > best

\* the test of both "if f < ..." statements
Improves(f, best) == f < best

\* the best-tracking fields as initializeFitness sets them
InitBest(P, n) ==
    [ bestFitPartX |-> [ i \in 1 .. P |-> Zeros(n) ],
      bestFitPart  |-> [ i \in 1 .. P |-> 0 ],
      ref          |-> 0,
      bestFitGlobal |-> 0,
      evaluated    |-> [ i \in 1 .. P |-> {} ],
      raisedAt     |-> 0 ]

\* the body of the loop for particle i
FitnessOf(i, f, X, b) ==
    LET fv == Fit(f, X[i])
        b1 == IF Improves(fv, b.bestFitPart[i])
              THEN [ b EXCEPT !.bestFitPart[i] = fv, !.bestFitPartX[i] = X[i] ]
              ELSE b
        b2 == IF Improves(fv, b1.bestFitGlobal)
              THEN [ b1 EXCEPT !.bestFitGlobal = fv, !.ref = i ]
              ELSE b1
    IN  [ b2 EXCEPT !.evaluated[i] = @ \cup { X[i] } ]

\* UpdateFitnessFrom going on to the later particles before the exception leaves it
RECURSIVE UpdateFitnessFromMut(_, _, _, _)
UpdateFitnessFromMut(i, f, X, b) ==
    IF i > Len(X) THEN b
    ELSE IF Raises(f, X[i])
         THEN [ UpdateFitnessFromMut(i + 1, f, X, b) EXCEPT !.raisedAt = i ]
    ELSE UpdateFitnessFromMut(i + 1, f, X, FitnessOf(i, f, X, b))

\* the loop from particle i on; it ends where fitFunc raises
RECURSIVE UpdateFitnessFrom(_, _, _, _)
UpdateFitnessFrom(i, f, X, b) ==
    IF i > Len(X) THEN b
    ELSE IF Raises(f, X[i]) THEN [ b EXCEPT !.raisedAt = i ]
    ELSE UpdateFitnessFrom(i + 1, f, X, FitnessOf(i, f, X, b))

\* the best-tracking fields of the current state
Best ==
    [ bestFitPartX |-> bestFitPartX, bestFitPart |-> bestFitPart,
      ref |-> bestFitGlobalRef, bestFitGlobal |-> bestFitGlobal,
      evaluated |-> evaluated, raisedAt |-> 0 ]

-----------------------------------------------------------------------------
(* updateVelocity and updatePosition *)

VelocityOf(i, V, X, PX, GX, rD, rG) ==
    [ d \in 1 .. Len(X[i]) |->
        omega * V[i][d]
        + (phiD * rD[i] * (PX[i][d] - X[i][d])) \div RandDen
        + (phiG * rG[i] * (GX[d] - X[i][d])) \div RandDen ]

\* self.particleX += self.particleV
PositionOf(i, X, V) == [ d \in 1 .. Len(X[i]) |-> X[i][d] + V[i][d] ]

-----------------------------------------------------------------------------
(* __init__ *)

KeepGoing(x) ==
    IF Truthy(args.maxGenNum) THEN x < args.maxGenNum.val ELSE TRUE

\* the statement of __init__ (or of what it calls) that raises: 7 is none
FailAt(a, b) ==
    IF Len(a.PSVals) # 3 THEN 1                              \* line 66
    ELSE IF a.saveVals /\ a.saveFile = "None" THEN 2         \* line 78
    ELSE IF Len(a.rangeSet) = 0 THEN 3                       \* line 110, rangeSet[ :, 0 ]
    ELSE IF ~ a.saveVals THEN 4                              \* line 117, self.saveVals
    ELSE IF b.raisedAt # 0 THEN 5                            \* line 177
    ELSE IF Truthy(a.maxGenNum) /\ ~ IsInt(a.maxGenNum) THEN 6   \* line 93
    ELSE 7

ErrorOf(k) ==
    CASE k \in { 1, 2, 6 } -> "ValueError"
      [] k = 3 -> "IndexError"
      [] k = 4 -> "AttributeError"
      [] k = 5 -> "ObjectiveError"
      [] OTHER -> "none"

AttrsAt(a, k) ==
    { "N", "rangeSet", "particleNumber", "fitFunc" }
    \cup (IF k > 1 THEN { "omega", "phiD", "phiG" } ELSE {})
    \cup (IF k > 1 /\ Truthy(a.maxGenNum) THEN { "maxGenNum" } ELSE {})
    \cup (IF k > 1 /\ a.saveVals THEN { "saveVals" } ELSE {})
    \cup (IF k > 2 /\ a.saveVals THEN { "saveFile", "outFile", "outCSV" } ELSE {})
    \cup (IF k > 3 THEN { "particleX", "particleV" } ELSE {})
    \cup (IF k > 4 THEN { "bestFitPartX", "bestFitPart", "bestFitGlobalX", "bestFitGlobal" }
                   ELSE {})
    \cup (IF k > 6 THEN { "keepGoing" } ELSE {})

ConstructWith(A) ==
    /\ pc = "new"
    /\ \E a \in A :
       \E rx, rv \in [ 1 .. a.particleNum -> [ 1 .. Len(a.rangeSet) -> Rand ] ] :
         LET P == a.particleNum
             X == [ i \in 1 .. P |-> InitX(a.rangeSet, rx[i]) ]
             V == [ i \in 1 .. P |-> InitV(a.rangeSet, rv[i]) ]
             b == UpdateFitnessFrom(1, a.fitnessFunc, X, InitBest(P, Len(a.rangeSet)))
             k == FailAt(a, b)
         IN  /\ args' = a
             /\ err' = ErrorOf(k)
             /\ attrs' = AttrsAt(a, k)
             /\ pc' = IF k = 7 THEN "idle" ELSE "failed"
             /\ outFile' = IF k > 2 /\ a.saveVals THEN "open" ELSE "none"
             /\ particleX' = IF k > 3 THEN X ELSE << >>
             /\ particleV' = IF k > 3 THEN V ELSE << >>
             /\ written' = IF k > 4 /\ a.saveVals THEN WriteVals(<< >>, X) ELSE << >>
             /\ bestFitPartX' = IF k > 4 THEN b.bestFitPartX ELSE << >>
             /\ bestFitPart' = IF k > 4 THEN b.bestFitPart ELSE << >>
             /\ bestFitGlobalRef' = IF k > 4 THEN b.ref ELSE 0
             /\ bestFitGlobal' = IF k > 4 THEN b.bestFitGlobal ELSE 0
             /\ evaluated' = IF k > 4 THEN b.evaluated ELSE << >>
             /\ UNCHANGED << step, runs, cycles >>

Construct == ConstructWith(Args)

-----------------------------------------------------------------------------
(* run and takeStep *)

\* Run keeping the counter of the call before
RunMut ==
    /\ pc = "idle"
    /\ pc' = "loop"
    /\ step' = step
    /\ runs' = runs + 1
    /\ UNCHANGED << args, err, attrs, particleX, particleV, bestFitPartX, bestFitPart,
                    bestFitGlobalRef, bestFitGlobal, outFile, written, cycles, evaluated >>

Run ==
    /\ pc = "idle"
    /\ pc' = "loop"
    /\ step' = 0
    /\ runs' = runs + 1
    /\ UNCHANGED << args, err, attrs, particleX, particleV, bestFitPartX, bestFitPart,
                    bestFitGlobalRef, bestFitGlobal, outFile, written, cycles, evaluated >>

\* while self.keepGoing( step ): false, run returns
RunReturn ==
    /\ pc = "loop"
    /\ ~ KeepGoing(step)
    /\ pc' = "idle"
    /\ UNCHANGED << args, err, attrs, particleX, particleV, bestFitPartX, bestFitPart,
                    bestFitGlobalRef, bestFitGlobal, outFile, written, step, runs,
                    cycles, evaluated >>

\* while self.keepGoing( step ): true, takeStep begins with updateVelocity
UpdateVelocity ==
    /\ pc = "loop"
    /\ KeepGoing(step)
    /\ cycles < MaxCycles
    /\ \E randDSet, randGSet \in [ 1 .. particleNumber -> Rand ] :
         particleV' = [ i \in 1 .. particleNumber |->
                          VelocityOf(i, particleV, particleX, bestFitPartX,
                                     bestFitGlobalX, randDSet, randGSet) ]
    /\ pc' = "pos"
    /\ UNCHANGED << args, err, attrs, particleX, bestFitPartX, bestFitPart,
                    bestFitGlobalRef, bestFitGlobal, outFile, written, step, runs,
                    cycles, evaluated >>

UpdatePosition ==
    /\ pc = "pos"
    /\ particleX' = [ i \in 1 .. particleNumber |-> PositionOf(i, particleX, particleV) ]
    /\ pc' = "fit"
    /\ UNCHANGED << args, err, attrs, particleV, bestFitPartX, bestFitPart,
                    bestFitGlobalRef, bestFitGlobal, outFile, written, step, runs,
                    cycles, evaluated >>

UpdateFitness ==
    /\ pc = "fit"
    /\ LET b == UpdateFitnessFrom(1, fitFunc, particleX, Best)
       IN  /\ bestFitPartX' = b.bestFitPartX
           /\ bestFitPart' = b.bestFitPart
           /\ bestFitGlobalRef' = b.ref
           /\ bestFitGlobal' = b.bestFitGlobal
           /\ evaluated' = b.evaluated
           /\ pc' = IF b.raisedAt # 0 THEN "raised" ELSE "write"
           /\ err' = IF b.raisedAt # 0 THEN "ObjectiveError" ELSE err
    /\ UNCHANGED << args, attrs, particleX, particleV, outFile, written, step, runs,
                    cycles >>

\* the end of takeStep, and step += 1
WriteStep ==
    /\ pc = "write"
    /\ "saveVals" \in attrs
    /\ written' = IF args.saveVals THEN WriteVals(written, particleX) ELSE written
    /\ step' = step + 1
    /\ cycles' = cycles + 1
    /\ pc' = "loop"
    /\ UNCHANGED << args, err, attrs, particleX, particleV, bestFitPartX, bestFitPart,
                    bestFitGlobalRef, bestFitGlobal, outFile, runs, evaluated >>

\* __del__
Del ==
    /\ pc \in { "idle", "failed", "raised" }
    /\ pc' = "deleted"
    /\ outFile' = IF "outFile" \in attrs THEN "closed" ELSE outFile
    /\ err' = IF "outFile" \in attrs THEN err ELSE "AttributeError"
    /\ UNCHANGED << args, attrs, particleX, particleV, bestFitPartX, bestFitPart,
                    bestFitGlobalRef, bestFitGlobal, written, step, runs, cycles,
                    evaluated >>

-----------------------------------------------------------------------------

Init ==
    /\ pc = "new"
    /\ args = NoArgs
    /\ err = "none"
    /\ attrs = {}
    /\ particleX = << >>
    /\ particleV = << >>
    /\ bestFitPartX = << >>
    /\ bestFitPart = << >>
    /\ bestFitGlobalRef = 0
    /\ bestFitGlobal = 0
    /\ outFile = "none"
    /\ written = << >>
    /\ step = 0
    /\ runs = 0
    /\ cycles = 0
    /\ evaluated = << >>

Next ==
    \/ Construct
    \/ Run
    \/ RunReturn
    \/ UpdateVelocity
    \/ UpdatePosition
    \/ UpdateFitness
    \/ WriteStep
    \/ Del

Spec == Init /\ [][Next]_vars

\* the same program, constructed with the arguments of Args3
Construct3 == ConstructWith(Args3)

Next3 ==
    \/ Construct3
    \/ Run
    \/ RunReturn
    \/ UpdateVelocity
    \/ UpdatePosition
    \/ UpdateFitness
    \/ WriteStep
    \/ Del

Spec3 == Init /\ [][Next3]_vars

-----------------------------------------------------------------------------
(* Helpers of the properties *)

\* __init__ returned an object
Constructed == "keepGoing" \in attrs

\* the configured integer maximum of generations
M == args.maxGenNum.val

\* inside a call of run()
InRun == pc \in { "loop", "pos", "fit", "write" }

SetMin(S) == CHOOSE m \in S : \A y \in S : m <= y

Min2(a, b) == IF a < b THEN a ELSE b

-----------------------------------------------------------------------------
(* C1: termination exactness *)

\* C1: with an integer maxGenNum = M >= 0, a run() on a fresh object never executes
\* more than M generation cycles, and has executed exactly M when it returns.
C1_TerminationExactness ==
    (Constructed /\ IsInt(args.maxGenNum) /\ M >= 0 /\ runs = 1)
        => /\ (InRun => step <= M)
           /\ (pc = "idle" => step = M /\ cycles = M)

-----------------------------------------------------------------------------
(* C2: global-best consistency *)

\* C2: stepping the particles' positions does not change the global best position
\* (so the recorded global best fitness stays the objective's value there).
C2_PositionStepKeepsGlobalBest ==
    [][ pc = "pos" => bestFitGlobalX' = bestFitGlobalX ]_vars

\* C2, the state form: between operations the global best fitness is the
\* objective's value at the global best position.
C2_GlobalBestIsObjectiveThere ==
    (Constructed /\ pc \in { "idle", "loop", "pos", "fit", "write" })
        => /\ ~ Raises(fitFunc, bestFitGlobalX)
           /\ bestFitGlobal = Fit(fitFunc, bestFitGlobalX)

-----------------------------------------------------------------------------
(* C3: personal bests are real evaluations *)

\* C3: after construction and after every generation cycle, each particle's personal
\* best position is one it was evaluated at, and its personal best fitness is the
\* least objective value over the positions it was evaluated at.
C3_PersonalBestIsMinimumSeen ==
    (Constructed /\ pc \in { "idle", "loop" })
        => \A i \in 1 .. particleNumber :
             /\ bestFitPartX[i] \in evaluated[i]
             /\ bestFitPart[i] = SetMin({ Fit(fitFunc, x) : x \in evaluated[i] })

-----------------------------------------------------------------------------
(* C4: monotonic improvement *)

\* C4: once constructed, the global best fitness never increases, and a step changes
\* it only to the fitness of a particle just evaluated strictly below it.
C4_MonotonicImprovement ==
    [][ pc # "new" =>
          /\ bestFitGlobal' <= bestFitGlobal
          /\ bestFitGlobal' # bestFitGlobal =>
               /\ pc = "fit"
               /\ \E i \in 1 .. particleNumber :
                    /\ ~ Raises(fitFunc, particleX[i])
                    /\ Fit(fitFunc, particleX[i]) = bestFitGlobal'
                    /\ Fit(fitFunc, particleX[i]) < bestFitGlobal ]_vars

\* a generation cycle has just found a global best below every value seen before
C4_Witness ==
    /\ pc = "write"
    /\ bestFitGlobalRef # 0
    /\ Cardinality(evaluated[bestFitGlobalRef]) >= 2
    /\ bestFitGlobal = Fit(fitFunc, particleX[bestFitGlobalRef])
    /\ \A i \in 1 .. particleNumber : \A x \in evaluated[i] :
         x # particleX[bestFitGlobalRef] => Fit(fitFunc, x) > bestFitGlobal

-----------------------------------------------------------------------------
(* C5: the recorder's snapshots *)

\* a row lists every particle, in index order from 0, each followed by its position
InIndexOrder(row) ==
    /\ Len(row) = particleNumber * (N + 1)
    /\ \A i \in 1 .. particleNumber : row[(i - 1) * (N + 1) + 1] = i - 1

\* C5: recording with an integer maxGenNum = M: construction emits the snapshot of
\* the initial positions, every generation cycle adds exactly one snapshot, of the
\* positions it evaluated, none is added inside a cycle, so that the first run()
\* returns with M + 1 snapshots; every snapshot lists the particles in index order.
C5_SnapshotCount ==
    (Constructed /\ args.saveVals /\ IsInt(args.maxGenNum))
        => /\ Len(written) = 1 + cycles
           /\ (pc = "idle" /\ runs = 0 => written = << WriteList(particleX, 1) >>)
           /\ (pc = "loop" /\ step > 0 => written[Len(written)] = WriteList(particleX, 1))
           /\ (pc = "idle" /\ runs = 1 => Len(written) = M + 1)
           /\ \A k \in 1 .. Len(written) : InIndexOrder(written[k])

\* the first run() of two generations has returned with three snapshots
C5_Witness ==
    /\ pc = "idle" /\ runs = 1
    /\ args.saveVals /\ args.maxGenNum = IntOf(2)
    /\ Len(written) = 3

-----------------------------------------------------------------------------
(* C6: the objective raises inside a generation cycle *)

\* C6: when the objective raises in a cycle's evaluation, every best-tracking field
\* keeps the value it had before that evaluation started, and nothing is written.
C6_RaiseLeavesBestsUntouched ==
    [][ (pc = "fit" /\ pc' = "raised") =>
          /\ bestFitPart' = bestFitPart /\ bestFitPartX' = bestFitPartX
          /\ bestFitGlobal' = bestFitGlobal /\ bestFitGlobalX' = bestFitGlobalX
          /\ written' = written ]_vars

\* the least of best and the objective's values at the positions of particles 1 .. k
RECURSIVE MinUpTo(_, _)
MinUpTo(best, k) ==
    IF k = 0 THEN best
    ELSE Min2(MinUpTo(best, k - 1), Fit(fitFunc, particleX[k]))

\* C6 amended: when the objective raises at particle k of a cycle's evaluation, run()
\* is left by the exception with positions and velocities as stepped and no snapshot
\* written; particle k and the later ones keep their personal bests, the particles
\* before k have theirs updated, and the global best is updated by those particles.
C6_RaiseKeepsEarlierUpdates ==
    [][ (pc = "fit" /\ pc' = "raised") =>
          \E k \in 1 .. particleNumber :
            /\ Raises(fitFunc, particleX[k])
            /\ \A j \in 1 .. (k - 1) : ~ Raises(fitFunc, particleX[j])
            /\ \A j \in k .. particleNumber :
                 bestFitPart'[j] = bestFitPart[j] /\ bestFitPartX'[j] = bestFitPartX[j]
            /\ \A j \in 1 .. (k - 1) :
                 /\ bestFitPart'[j] = Min2(bestFitPart[j], Fit(fitFunc, particleX[j]))
                 /\ bestFitPartX'[j] =
                      IF Fit(fitFunc, particleX[j]) < bestFitPart[j]
                      THEN particleX[j] ELSE bestFitPartX[j]
            /\ bestFitGlobal' = MinUpTo(bestFitGlobal, k - 1)
            /\ (k = 1 => bestFitGlobalRef' = bestFitGlobalRef)
            /\ err' = "ObjectiveError"
            /\ written' = written /\ step' = step /\ cycles' = cycles
            /\ particleX' = particleX /\ particleV' = particleV ]_vars

\* the objective raised at the second particle of three in a cycle, after the first
\* particle had improved its personal best at the position it was stepped to
C6_Witness ==
    /\ pc = "raised" /\ runs >= 1
    /\ particleNumber = 3
    /\ Raises(fitFunc, particleX[2])
    /\ ~ Raises(fitFunc, particleX[1])
    /\ Cardinality(evaluated[1]) = 2
    /\ bestFitPartX[1] = particleX[1]
    /\ \A x \in evaluated[1] :
         x # particleX[1] => Fit(fitFunc, x) > bestFitPart[1]

-----------------------------------------------------------------------------
(* C7: rejected configurations *)

\* C7: the constructor returns no object when the bounds are empty, when a pair of
\* bounds has min > max, or when the coefficients are not exactly three.
C7_BadConfigurationRejected ==
    ( \/ Len(args.rangeSet) = 0
      \/ \E d \in 1 .. Len(args.rangeSet) : args.rangeSet[d][1] > args.rangeSet[d][2]
      \/ Len(args.PSVals) # 3 )
        => (pc # "new" => ~ Constructed)

-----------------------------------------------------------------------------
(* C8: a rejected construction has no effect *)

\* C8: when the constructor raises its configuration error, the recorder's file has
\* not been opened, no snapshot written, no particle initialized or evaluated.
C8_RejectionHasNoEffect ==
    (pc = "failed" /\ err = "ValueError")
        => /\ outFile = "none"
           /\ written = << >>
           /\ "particleX" \notin attrs
           /\ "bestFitGlobal" \notin attrs

-----------------------------------------------------------------------------
(* C9: recording switched off *)

\* C9: with saveVals false and no saveFile, and arguments valid otherwise, the
\* constructor returns an object.
C9_ConstructsWithoutRecorder ==
    ( /\ pc \in { "idle", "failed" } /\ runs = 0
      /\ ~ args.saveVals /\ args.saveFile = "None"
      /\ args.rangeSet = << <<0, 2>> >>
      /\ Len(args.PSVals) = 3
      /\ args.fitnessFunc = "sumsq"
      /\ args.maxGenNum \in { None, IntOf(1), IntOf(2) } )
        => pc = "idle"

-----------------------------------------------------------------------------
(* C10: the generation counter across calls of run() *)

\* C10: with an integer maxGenNum = M, all calls of run() together execute at most M
\* generation cycles: from the second call on no cycle is added.
C10_CyclesNeverExceedMax ==
    (Constructed /\ IsInt(args.maxGenNum) /\ runs >= 2) => cycles <= M

\* C10 amended: the counter is local to a call of run() and starts at 0 in each:
\* every call that returns has executed M cycles of its own, so runs calls have
\* executed runs * M cycles, the second call M further ones.
C10_EachRunExecutesMax ==
    (Constructed /\ IsInt(args.maxGenNum) /\ runs >= 1)
        => /\ (InRun \/ pc = "idle" => cycles = (runs - 1) * M + step)
           /\ (pc = "idle" => step = M /\ cycles = runs * M)

\* a second run() of one generation has returned, two cycles in all
C10_Witness ==
    /\ pc = "idle" /\ runs = 2 /\ cycles = 2
    /\ args.maxGenNum = IntOf(1)

====
